---- MODULE Spec2Model ----
(***************************************************************************)
(* Session core of the real-time chat server: the in-memory maps rooms,    *)
(* userSockets and socketUsers, the Socket.IO room membership of every     *)
(* socket (socket.rooms) and the handlers registered in io.on('connection')*)
(* together with POST /api/rooms.  Every handler runs to completion on the *)
(* Node.js event loop, so each handler is one atomic action.               *)
(***************************************************************************)
EXTENDS Integers, Sequences, FiniteSets, TLC

\* ---------------------------------------------------------------- bounds
MaxSteps == 7          \* handler invocations explored by Spec
MaxHistPosts == 103    \* posts explored by SpecHistory (more than the cap)
MaxTwinSteps == 8      \* handler invocations explored by SpecTwin
MaxClientSteps == 11   \* client and server steps explored by SpecClient

\* ------------------------------------------------------- input universes
Conns == {"s1", "s2", "s3"}            \* socket ids
RoomIds == {"r1", "r2"}                \* ids POST /api/rooms can generate
TokenUser == [s \in Conns |-> IF s = "s2" THEN "u2" ELSE "u1"]
Whitespace == {" "}
\* req.body.name when the request carries no name field
Undefined == <<"undefined">>
RoomNames == {<<"g">>, <<" ">>, <<>>, Undefined}
Bodies == {<<"h">>, <<" ", "y">>, <<" ">>}
\* what a client puts in the send_message payload: the two fields the handler
\* reads and fields of its own making (an id and an author)
SendData ==
  {[roomId |-> r, message |-> m, id |-> 0, user |-> [ref |-> "s2", id |-> "u2"]] :
     r \in RoomIds, m \in Bodies}

\* ------------------------------------------------------ program constant
HistoryCap == 100

VARIABLES rooms, userSockets, socketUsers, socketRooms, connected,
          outbox, msgSeq, last, steps

\* The React client behind each socket: packets it has emitted that the
\* server has not handled yet, how many of the server's events it has
\* handled, and its currentRoom and messages state (messages is spelled
\* clientMessages here).
VARIABLES requests, delivered, currentRoom, clientMessages

clientVars == <<requests, delivered, currentRoom, clientMessages>>

vars == <<rooms, userSockets, socketUsers, socketRooms, connected,
          outbox, msgSeq, last, steps, requests, delivered, currentRoom,
          clientMessages>>

\* ------------------------------------------------------------- helpers
Range(s) == {s[i] : i \in 1..Len(s)}

\* String.prototype.trim on a string given as a sequence of characters
RECURSIVE TrimStart(_)
TrimStart(s) ==
  IF s # <<>> /\ Head(s) \in Whitespace THEN TrimStart(Tail(s)) ELSE s

RECURSIVE TrimEnd(_)
TrimEnd(s) ==
  IF s # <<>> /\ s[Len(s)] \in Whitespace
  THEN TrimEnd(SubSeq(s, 1, Len(s) - 1)) ELSE s

\* the string taken as it came, not trimmed
TrimNone(s) == s

Trim(s) == TrimEnd(TrimStart(s))

\* !name for a name that is a string or missing
Falsy(name) == name = Undefined \/ name = <<>>

\* A JavaScript Set is kept as the sequence of its elements in insertion order
SetHas(s, x) == x \in Range(s)

SetAdd(s, x) == IF SetHas(s, x) THEN s ELSE Append(s, x)

SetDelete(s, x) == SelectSeq(s, LAMBDA y : y # x)

\* A JavaScript Map is kept as a function on its key set
MapSet(m, k, v) == [x \in (DOMAIN m) \cup {k} |-> IF x = k THEN v ELSE m[x]]

MapDelete(m, k) == [x \in (DOMAIN m) \ {k} |-> m[x]]

EmptyMap == [x \in {} |-> x]

\* socket.user: the object jwt.verify builds for this one socket.  Set
\* membership in room.users is by object reference, so the object carries the
\* socket it was built for (ref) next to the identity it describes (id).
SocketUser(c) == [ref |-> c, id |-> TokenUser[c]]

\* slice(0, n) in place of slice(-n): keeps the oldest n
SliceLastKeepsOldest(s, n) == IF Len(s) <= n THEN s ELSE SubSeq(s, 1, n)

\* Array.prototype.slice(-n)
SliceLast(s, n) == IF Len(s) <= n THEN s ELSE SubSeq(s, Len(s) - n + 1, Len(s))

\* ------------------------------------------------------------- events
ErrorEv(text) == [type |-> "error", text |-> text]

UserLeftEv(user, users) == [type |-> "user_left", user |-> user, users |-> users]

UserJoinedEv(user, users) ==
  [type |-> "user_joined", user |-> user, users |-> users]

RoomUsersEv(roomId, users) ==
  [type |-> "room_users", roomId |-> roomId, users |-> users]

MessageHistoryEv(roomId, messages) ==
  [type |-> "message_history", roomId |-> roomId, messages |-> messages]

MessageEv(messageObj) == [type |-> "message", msg |-> messageObj]

UserTypingEv(user, isTyping) ==
  [type |-> "user_typing", user |-> user, isTyping |-> isTyping]

\* sockets currently in the Socket.IO room rm
InRoom(sr, rm) == {d \in Conns : SetHas(sr[d], rm)}

\* deliver ev to every socket of targets, in emission order
Emit(ob, targets, ev) ==
  [d \in Conns |-> IF d \in targets THEN Append(ob[d], ev) ELSE ob[d]]

\* io.emit in place of socket.emit: every connected socket is sent the event
SocketEmitToAll(ob, c, ev) == Emit(ob, {d \in Conns : connected[d] = "open"}, ev)

\* socket.emit
SocketEmit(ob, c, ev) == Emit(ob, {c}, ev)

\* socket.to(rm).emit: the room rm except the socket itself
SocketToEmit(ob, sr, c, rm, ev) == Emit(ob, InRoom(sr, rm) \ {c}, ev)

\* io.to(rm).emit: the whole room rm
IoToEmit(ob, sr, rm, ev) == Emit(ob, InRoom(sr, rm), ev)

\* ------------------------------------------------------------- Init
Init ==
  /\ rooms = EmptyMap
  /\ userSockets = EmptyMap
  /\ socketUsers = EmptyMap
  /\ socketRooms = [c \in Conns |-> <<>>]
  /\ connected = [c \in Conns |-> "idle"]
  /\ outbox = [c \in Conns |-> <<>>]
  /\ msgSeq = 0
  /\ last = [op |-> "init", conn |-> "none", room |-> "none", ok |-> TRUE]
  /\ steps = 0
  /\ requests = [c \in Conns |-> <<>>]
  /\ delivered = [c \in Conns |-> 0]
  /\ currentRoom = [c \in Conns |-> "null"]
  /\ clientMessages = [c \in Conns |-> <<>>]

\* ------------------------------------------------- POST /api/rooms
CreateRoom(name, roomId) ==
  /\ steps' = steps + 1
  /\ IF Falsy(name) \/ Len(Trim(name)) = 0
     THEN /\ rooms' = rooms
          /\ last' = [op |-> "create_room", conn |-> "http",
                      room |-> "none", ok |-> FALSE]
     ELSE /\ rooms' = MapSet(rooms, roomId,
                             [name |-> Trim(name), messages |-> <<>>,
                              users |-> <<>>])
          /\ last' = [op |-> "create_room", conn |-> "http",
                      room |-> roomId, ok |-> TRUE]
  /\ UNCHANGED <<userSockets, socketUsers, socketRooms, connected,
                 outbox, msgSeq>>

\* ------------------------------------------------- io.on('connection')
Connect(c) ==
  /\ connected[c] = "idle"
  /\ steps' = steps + 1
  /\ connected' = [connected EXCEPT ![c] = "open"]
  /\ socketRooms' = [socketRooms EXCEPT ![c] = <<c>>]
  /\ userSockets' = MapSet(userSockets, SocketUser(c).id, c)
  /\ socketUsers' = MapSet(socketUsers, c, SocketUser(c))
  /\ last' = [op |-> "connection", conn |-> c, room |-> "none", ok |-> TRUE]
  /\ UNCHANGED <<rooms, outbox, msgSeq>>

\* ------------------------------------------------- socket.on('join_room')
\* user_left emitted before prevRoom.users.delete: the list still names c
LeaveStepEmitsBeforeDelete(st, c, rm) ==
  IF rm = c THEN st
  ELSE LET sr == [st.socketRooms EXCEPT ![c] = SetDelete(@, rm)] IN
       IF rm \notin DOMAIN st.rooms
       THEN [st EXCEPT !.socketRooms = sr]
       ELSE LET users == SetDelete(st.rooms[rm].users, SocketUser(c)) IN
            [rooms |-> [st.rooms EXCEPT ![rm].users = users],
             socketRooms |-> sr,
             outbox |-> SocketToEmit(st.outbox, sr, c, rm,
                                     UserLeftEv(SocketUser(c),
                                                st.rooms[rm].users))]

\* prevRoom.users filtered by user id instead of users.delete(socket.user):
\* every user object of the same identity goes
LeaveStepByIdentity(st, c, rm) ==
  IF rm = c THEN st
  ELSE LET sr == [st.socketRooms EXCEPT ![c] = SetDelete(@, rm)] IN
       IF rm \notin DOMAIN st.rooms
       THEN [st EXCEPT !.socketRooms = sr]
       ELSE LET users == SelectSeq(st.rooms[rm].users,
                                   LAMBDA u : u.id # SocketUser(c).id) IN
            [rooms |-> [st.rooms EXCEPT ![rm].users = users],
             socketRooms |-> sr,
             outbox |-> SocketToEmit(st.outbox, sr, c, rm,
                                     UserLeftEv(SocketUser(c), users))]

\* one pass of the forEach body over a previous room rm
LeaveStep(st, c, rm) ==
  IF rm = c THEN st
  ELSE LET sr == [st.socketRooms EXCEPT ![c] = SetDelete(@, rm)] IN
       IF rm \notin DOMAIN st.rooms
       THEN [st EXCEPT !.socketRooms = sr]
       ELSE LET users == SetDelete(st.rooms[rm].users, SocketUser(c)) IN
            [rooms |-> [st.rooms EXCEPT ![rm].users = users],
             socketRooms |-> sr,
             outbox |-> SocketToEmit(st.outbox, sr, c, rm,
                                     UserLeftEv(SocketUser(c), users))]

RECURSIVE LeavePrevious(_, _, _)
LeavePrevious(st, c, list) ==
  IF list = <<>> THEN st
  ELSE LeavePrevious(LeaveStep(st, c, Head(list)), c, Tail(list))

\* message_history emitted ahead of room_users
JoinNewHistoryFirst(st, c, roomId) ==
  LET sr == [st.socketRooms EXCEPT ![c] = SetAdd(@, roomId)]
      users == SetAdd(st.rooms[roomId].users, SocketUser(c))
      rs == [st.rooms EXCEPT ![roomId].users = users]
      ob1 == SocketToEmit(st.outbox, sr, c, roomId,
                          UserJoinedEv(SocketUser(c), users))
      ob2 == SocketEmit(ob1, c, MessageHistoryEv(roomId, rs[roomId].messages))
      ob3 == SocketEmit(ob2, c, RoomUsersEv(roomId, users))
  IN [rooms |-> rs, socketRooms |-> sr, outbox |-> ob3]

\* room_users built from the membership set as it was before room.users.add
JoinNewSnapshotBeforeAdd(st, c, roomId) ==
  LET sr == [st.socketRooms EXCEPT ![c] = SetAdd(@, roomId)]
      users == SetAdd(st.rooms[roomId].users, SocketUser(c))
      rs == [st.rooms EXCEPT ![roomId].users = users]
      ob1 == SocketToEmit(st.outbox, sr, c, roomId,
                          UserJoinedEv(SocketUser(c), users))
      ob2 == SocketEmit(ob1, c, RoomUsersEv(roomId, st.rooms[roomId].users))
      ob3 == SocketEmit(ob2, c, MessageHistoryEv(roomId, rs[roomId].messages))
  IN [rooms |-> rs, socketRooms |-> sr, outbox |-> ob3]

\* the statements after the forEach
JoinNew(st, c, roomId) ==
  LET sr == [st.socketRooms EXCEPT ![c] = SetAdd(@, roomId)]
      users == SetAdd(st.rooms[roomId].users, SocketUser(c))
      rs == [st.rooms EXCEPT ![roomId].users = users]
      ob1 == SocketToEmit(st.outbox, sr, c, roomId,
                          UserJoinedEv(SocketUser(c), users))
      ob2 == SocketEmit(ob1, c, RoomUsersEv(roomId, users))
      ob3 == SocketEmit(ob2, c, MessageHistoryEv(roomId, rs[roomId].messages))
  IN [rooms |-> rs, socketRooms |-> sr, outbox |-> ob3]

JoinRoom(c, roomId) ==
  /\ connected[c] = "open"
  /\ steps' = steps + 1
  /\ IF roomId \notin DOMAIN rooms
     THEN /\ outbox' = SocketEmit(outbox, c, ErrorEv("Room not found"))
          /\ last' = [op |-> "join_room", conn |-> c, room |-> roomId,
                      ok |-> FALSE]
          /\ UNCHANGED <<rooms, socketRooms>>
     ELSE LET st0 == [rooms |-> rooms, socketRooms |-> socketRooms,
                      outbox |-> outbox]
              st1 == LeavePrevious(st0, c, socketRooms[c])
              st2 == JoinNew(st1, c, roomId)
          IN /\ rooms' = st2.rooms
             /\ socketRooms' = st2.socketRooms
             /\ outbox' = st2.outbox
             /\ last' = [op |-> "join_room", conn |-> c, room |-> roomId,
                         ok |-> TRUE]
  /\ UNCHANGED <<userSockets, socketUsers, connected, msgSeq>>

\* ------------------------------------------------- socket.on('send_message')
\* membership tested by identity id instead of by the socket's user object
IsRoomUserById(room, c) ==
  \E u \in Range(room.users) : u.id = SocketUser(c).id

\* room.users.has(socket.user)
IsRoomUser(room, c) == SetHas(room.users, SocketUser(c))

\* unshift in place of push: the newest message goes to the front
StoreMessageUnshift(messages, messageObj) ==
  LET pushed == <<messageObj>> \o messages IN
  IF Len(pushed) > HistoryCap THEN SliceLast(pushed, HistoryCap) ELSE pushed

\* room.messages.push(messageObj) followed by the slice(-100) guard
StoreMessage(messages, messageObj) ==
  LET pushed == Append(messages, messageObj) IN
  IF Len(pushed) > HistoryCap THEN SliceLast(pushed, HistoryCap) ELSE pushed

\* The id `msg_${Date.now()}_${random}` and the timestamp are taken fresh per
\* message: the counter msgSeq stands for the clock they are read from.
SendMessage(c, roomId, message) ==
  /\ connected[c] = "open"
  /\ steps' = steps + 1
  /\ IF roomId \notin DOMAIN rooms
     THEN /\ outbox' = SocketEmit(outbox, c, ErrorEv("Room not found"))
          /\ last' = [op |-> "send_message", conn |-> c, room |-> roomId,
                      ok |-> FALSE]
          /\ UNCHANGED <<rooms, msgSeq>>
     ELSE IF ~IsRoomUser(rooms[roomId], c)
     THEN /\ outbox' = SocketEmit(outbox, c,
                                  ErrorEv("You are not in this room"))
          /\ last' = [op |-> "send_message", conn |-> c, room |-> roomId,
                      ok |-> FALSE]
          /\ UNCHANGED <<rooms, msgSeq>>
     ELSE LET messageObj == [id |-> msgSeq + 1, user |-> SocketUser(c),
                             message |-> Trim(message),
                             timestamp |-> msgSeq + 1]
          IN /\ msgSeq' = msgSeq + 1
             /\ rooms' = [rooms EXCEPT ![roomId].messages =
                                         StoreMessage(@, messageObj)]
             /\ outbox' = IoToEmit(outbox, socketRooms, roomId,
                                   MessageEv(messageObj))
             /\ last' = [op |-> "send_message", conn |-> c, room |-> roomId,
                         ok |-> TRUE]
  /\ UNCHANGED <<userSockets, socketUsers, socketRooms, connected>>

\* the author taken from the payload instead of from the socket
OnSendMessageClaimedUser(c, data) ==
  SendMessage(data.user.ref, data.roomId, data.message)

\* const { roomId, message } = data
OnSendMessage(c, data) == SendMessage(c, data.roomId, data.message)

\* ------------------------------------------------- socket.on('typing')
Typing(c, roomId, isTyping) ==
  /\ connected[c] = "open"
  /\ steps' = steps + 1
  /\ outbox' = SocketToEmit(outbox, socketRooms, c, roomId,
                            UserTypingEv(SocketUser(c), isTyping))
  /\ last' = [op |-> "typing", conn |-> c, room |-> roomId, ok |-> TRUE]
  /\ UNCHANGED <<rooms, userSockets, socketUsers, socketRooms, connected,
                 msgSeq>>

\* ------------------------------------------------- 'leave_room'
\* The server registers no listener for the leave_room event the README
\* lists, so Socket.IO drops the packet: no state changes, nothing is emitted.
LeaveRoom(c) ==
  /\ connected[c] = "open"
  /\ steps' = steps + 1
  /\ last' = [op |-> "leave_room", conn |-> c, room |-> "none", ok |-> TRUE]
  /\ UNCHANGED <<rooms, userSockets, socketUsers, socketRooms, connected,
                 outbox, msgSeq>>

\* ------------------------------------------------- socket.on('disconnect')
\* Socket.IO fires 'disconnect' after the socket has left all its rooms
\* (leaveAll runs between 'disconnecting' and 'disconnect'), so socket.rooms
\* read inside the handler is the empty set.
RoomsAtDisconnect(c) == <<>>

\* one pass of the forEach body of the disconnect handler
DisconnectStep(st, c, roomId) ==
  IF roomId = c \/ roomId \notin DOMAIN st.rooms THEN st
  ELSE LET users == SetDelete(st.rooms[roomId].users, SocketUser(c)) IN
       [rooms |-> [st.rooms EXCEPT ![roomId].users = users],
        socketRooms |-> st.socketRooms,
        outbox |-> SocketToEmit(st.outbox, st.socketRooms, c, roomId,
                                UserLeftEv(SocketUser(c), users))]

RECURSIVE RemoveFromAll(_, _, _)
RemoveFromAll(st, c, list) ==
  IF list = <<>> THEN st
  ELSE RemoveFromAll(DisconnectStep(st, c, Head(list)), c, Tail(list))

\* A close signal for socket c.  Only the first one reaches the handler: the
\* socket is no longer connected when a second signal arrives.
Disconnect(c) ==
  /\ connected[c] # "idle"
  /\ steps' = steps + 1
  /\ IF connected[c] = "closed"
     THEN /\ last' = [op |-> "disconnect", conn |-> c, room |-> "none",
                      ok |-> FALSE]
          /\ UNCHANGED <<rooms, userSockets, socketUsers, socketRooms,
                         connected, outbox>>
     ELSE LET sr == [socketRooms EXCEPT ![c] = <<>>]
              st0 == [rooms |-> rooms, socketRooms |-> sr, outbox |-> outbox]
              st1 == RemoveFromAll(st0, c, RoomsAtDisconnect(c))
          IN /\ rooms' = st1.rooms
             /\ socketRooms' = st1.socketRooms
             /\ outbox' = st1.outbox
             /\ connected' = [connected EXCEPT ![c] = "closed"]
             /\ userSockets' = MapDelete(userSockets, SocketUser(c).id)
             /\ socketUsers' = MapDelete(socketUsers, c)
             /\ last' = [op |-> "disconnect", conn |-> c, room |-> "none",
                         ok |-> TRUE]
  /\ UNCHANGED msgSeq

\* ------------------------------------------------------------- Next
\* Generated room ids are taken fresh: `room_${Date.now()}_${random}`.
Next ==
  /\ steps < MaxSteps
  /\ UNCHANGED clientVars
  /\ \/ \E name \in RoomNames, roomId \in RoomIds \ DOMAIN rooms :
          CreateRoom(name, roomId)
     \/ \E c \in Conns : Connect(c)
     \/ \E c \in Conns, roomId \in RoomIds : JoinRoom(c, roomId)
     \/ \E c \in Conns, data \in SendData : OnSendMessage(c, data)
     \/ \E c \in Conns, roomId \in RoomIds, isTyping \in BOOLEAN :
          Typing(c, roomId, isTyping)
     \/ \E c \in Conns : LeaveRoom(c)
     \/ \E c \in Conns : Disconnect(c)

Spec == Init /\ [][Next]_vars

\* ------------------------------------------------------ repeated room ids
\* Nothing in POST /api/rooms compares the generated id with the ids in use:
\* two requests served in the same millisecond whose Math.random() values
\* share their first nine base-36 digits get the same id.  NextCollide lets
\* the generated id be any id, in use or not.
NextCollide ==
  /\ steps < MaxSteps
  /\ UNCHANGED clientVars
  /\ \/ \E name \in RoomNames, roomId \in RoomIds : CreateRoom(name, roomId)
     \/ \E c \in Conns : Connect(c)
     \/ \E c \in Conns, roomId \in RoomIds : JoinRoom(c, roomId)
     \/ \E c \in Conns, data \in SendData : OnSendMessage(c, data)
     \/ \E c \in Conns, roomId \in RoomIds, isTyping \in BOOLEAN :
          Typing(c, roomId, isTyping)
     \/ \E c \in Conns : LeaveRoom(c)
     \/ \E c \in Conns : Disconnect(c)

SpecCollide == Init /\ [][NextCollide]_vars

\* ------------------------------------------------------ long-history runs
\* One room, socket s1 posting into it past the history cap while s2 may
\* connect and join at any moment.  The body alternates with the post number.
BodyOf(n) == IF n % 2 = 0 THEN <<"h">> ELSE <<" ", "y">>

NextHistory ==
  /\ UNCHANGED clientVars
  /\ \/ rooms = EmptyMap /\ CreateRoom(<<"g">>, "r1")
     \/ \E c \in {"s1", "s2"} : "r1" \in DOMAIN rooms /\ Connect(c)
     \/ \E c \in {"s1", "s2"} :
           /\ "r1" \in DOMAIN rooms
           /\ ~SetHas(socketRooms[c], "r1")
           /\ JoinRoom(c, "r1")
     \/ /\ "r1" \in DOMAIN rooms
        /\ SetHas(socketRooms["s1"], "r1")
        /\ msgSeq < MaxHistPosts
        /\ SendMessage("s1", "r1", BodyOf(msgSeq))

SpecHistory == Init /\ [][NextHistory]_vars

\* ------------------------------------------------ two sockets, one identity
\* s1 and s3 carry tokens of the same user.  Only they connect; rooms are
\* named "g" and every post has the body "h", which leaves room for one step
\* more than Spec explores.
TwinConns == {c \in Conns : TokenUser[c] = TokenUser["s1"]}

NextTwin ==
  /\ steps < MaxTwinSteps
  /\ UNCHANGED clientVars
  /\ \/ \E roomId \in RoomIds \ DOMAIN rooms : CreateRoom(<<"g">>, roomId)
     \/ \E c \in TwinConns : Connect(c)
     \/ \E c \in TwinConns, roomId \in RoomIds : JoinRoom(c, roomId)
     \/ \E c \in TwinConns, data \in SendData :
          data.message = <<"h">> /\ OnSendMessage(c, data)
     \/ \E c \in TwinConns : Disconnect(c)

SpecTwin == Init /\ [][NextTwin]_vars

\* ------------------------------------------------------ the React client
\* Socket.IO delivers each direction of a connection in order; the two
\* directions are independent, so a packet the client emits and an event the
\* server emits can cross.  requests[c] is the client-to-server queue and
\* outbox[c] from delivered[c] + 1 on is the server-to-client queue.
serverVars == <<rooms, userSockets, socketUsers, socketRooms, connected,
                outbox, msgSeq>>

\* joinRoom of ChatApp; the room clicked is one of the fetched room list
joinRoom(c, roomId) ==
  /\ connected[c] = "open"
  /\ roomId \in DOMAIN rooms
  /\ roomId # currentRoom[c]
  /\ steps' = steps + 1
  /\ requests' = [requests EXCEPT ![c] =
                    Append(@, [event |-> "join_room", roomId |-> roomId,
                               message |-> <<>>])]
  /\ currentRoom' = [currentRoom EXCEPT ![c] = roomId]
  /\ clientMessages' = [clientMessages EXCEPT ![c] = <<>>]
  /\ last' = [op |-> "joinRoom", conn |-> c, room |-> roomId, ok |-> TRUE]
  /\ UNCHANGED <<serverVars, delivered>>

\* sendMessage of ChatApp
sendMessage(c, newMessage) ==
  /\ connected[c] = "open"
  /\ currentRoom[c] # "null"
  /\ Trim(newMessage) # <<>>
  /\ steps' = steps + 1
  /\ requests' = [requests EXCEPT ![c] =
                    Append(@, [event |-> "send_message",
                               roomId |-> currentRoom[c],
                               message |-> newMessage])]
  /\ last' = [op |-> "sendMessage", conn |-> c, room |-> currentRoom[c],
              ok |-> TRUE]
  /\ UNCHANGED <<serverVars, delivered, currentRoom, clientMessages>>

\* the server takes the oldest packet of socket c and runs its handler
ServerReceive(c) ==
  /\ requests[c] # <<>>
  /\ LET req == Head(requests[c]) IN
     IF req.event = "join_room"
     THEN JoinRoom(c, req.roomId)
     ELSE OnSendMessage(c, [roomId |-> req.roomId, message |-> req.message])
  /\ requests' = [requests EXCEPT ![c] = Tail(@)]
  /\ UNCHANGED <<delivered, currentRoom, clientMessages>>

\* the client's socket handlers run on the oldest event not yet handled:
\* 'message' appends, 'message_history' replaces, the others leave messages
ClientReceive(c) ==
  /\ delivered[c] < Len(outbox[c])
  /\ steps' = steps + 1
  /\ delivered' = [delivered EXCEPT ![c] = @ + 1]
  /\ LET ev == outbox[c][delivered[c] + 1] IN
     clientMessages' =
       [clientMessages EXCEPT ![c] =
          IF ev.type = "message" THEN Append(@, ev.msg)
          ELSE IF ev.type = "message_history" THEN ev.messages
          ELSE @]
  /\ last' = [op |-> "client_event", conn |-> c, room |-> "none", ok |-> TRUE]
  /\ UNCHANGED <<serverVars, requests, currentRoom>>

\* Rooms named "g", posts with body "h", the browsers of s1 and s2.
ClientConns == {"s1", "s2"}

NextClient ==
  /\ steps < MaxClientSteps
  /\ \/ /\ \E roomId \in RoomIds \ DOMAIN rooms : CreateRoom(<<"g">>, roomId)
        /\ UNCHANGED clientVars
     \/ /\ \E c \in ClientConns : Connect(c)
        /\ UNCHANGED clientVars
     \/ \E c \in ClientConns, roomId \in RoomIds : joinRoom(c, roomId)
     \/ \E c \in ClientConns : sendMessage(c, <<"h">>)
     \/ \E c \in ClientConns : ServerReceive(c)
     \/ \E c \in ClientConns : ClientReceive(c)

SpecClient == Init /\ [][NextClient]_vars

\* =================================================================== claims
\* rooms whose membership set room.users holds the user object of socket c
RoomsOfConn(c) == {r \in DOMAIN rooms : SetHas(rooms[r].users, SocketUser(c))}

\* sockets whose user object is in the membership set of room r
MembersOf(r) == {d \in Conns : SetHas(rooms[r].users, SocketUser(d))}

\* the events a step appends to the outbound stream of socket d
NewEvents(d) == SubSeq(outbox'[d], Len(outbox[d]) + 1, Len(outbox'[d]))

\* the bodies of the message events socket d has been sent, in order
MessagesSeen(d) ==
  LET evs == SelectSeq(outbox[d], LAMBDA e : e.type = "message")
  IN [i \in 1..Len(evs) |-> evs[i].msg]

\* how many user_left events about socket c are in the event sequence evs
CountLeft(evs, c) ==
  Len(SelectSeq(evs, LAMBDA e : e.type = "user_left" /\ e.user = SocketUser(c)))

\* C1: every connection is in the membership set of at most one room; right
\* after a successful join it is a member of exactly the room it joined; a
\* connection that has disconnected is a member of no room.
C1_AtMostOneRoom ==
  /\ \A c \in Conns : Cardinality(RoomsOfConn(c)) <= 1
  /\ (last.op = "join_room" /\ last.ok) => RoomsOfConn(last.conn) = {last.room}
  /\ \A c \in Conns : connected[c] = "closed" => RoomsOfConn(c) = {}

\* C2: an accepted send_message to room R delivers the message event to
\* exactly the connections in R's membership set at that instant (sender
\* included) and to nobody else.
C2_BroadcastEqualsMembership ==
  [][(last'.op = "send_message" /\ last'.ok) =>
       LET r == last'.room
           stored == rooms'[r].messages
           ev == MessageEv(stored[Len(stored)])
       IN \A d \in Conns :
            IF d \in MembersOf(r)
            THEN outbox'[d] = Append(outbox[d], ev)
            ELSE outbox'[d] = outbox[d]]_vars

\* C3: a room's history never holds more than 100 messages, and it is exactly
\* the last 100 (or all, if fewer) accepted posts in their acceptance order.
\* Socket s1 is in the room from before the first post, so the message events
\* it has been sent are the accepted posts.
C3_HistoryBound ==
  \A r \in DOMAIN rooms :
    LET hist == rooms[r].messages
        posts == MessagesSeen("s1")
        n == Len(posts)
    IN /\ Len(hist) <= HistoryCap
       /\ n = msgSeq
       /\ Len(hist) = IF n > HistoryCap THEN HistoryCap ELSE n
       /\ \A i \in 1..Len(hist) : hist[i] = posts[n - Len(hist) + i]

\* more than 100 posts were accepted and the oldest have been evicted
C3_Witness ==
  /\ "r1" \in DOMAIN rooms
  /\ msgSeq > HistoryCap
  /\ Len(rooms["r1"].messages) = HistoryCap
  /\ rooms["r1"].messages[1].id = msgSeq - HistoryCap + 1

\* C4: when a connection that is a member of room R disconnects it is removed
\* from R's membership set, every other member of R is sent one user_left
\* event about it, and its userSockets and socketUsers entries are released.
C4_DisconnectCleanup ==
  [][(last'.op = "disconnect" /\ last'.ok) =>
       LET c == last'.conn IN
       /\ \A r \in RoomsOfConn(c) :
            /\ ~SetHas(rooms'[r].users, SocketUser(c))
            /\ \A d \in MembersOf(r) \ {c} :
                  connected[d] = "open" =>
                    /\ Len(NewEvents(d)) = 1
                    /\ CountLeft(NewEvents(d), c) = 1
       /\ c \notin DOMAIN socketUsers'
       /\ SocketUser(c).id \notin DOMAIN userSockets']_vars

\* the identities named by a sequence of user objects
Ids(users) == [i \in 1..Len(users) |-> users[i].id]

\* the position of message m in the history hist
IndexIn(hist, m) == CHOOSE i \in 1..Len(hist) : hist[i] = m

\* C5: a send_message naming an existing room from a connection that is not a
\* member of it sends one error event to that connection, nothing to anyone
\* else, and leaves every room's history and membership as they were.
C5_NonMemberSendRejected ==
  [][(/\ last'.op = "send_message"
      /\ last'.room \in DOMAIN rooms
      /\ last'.conn \notin MembersOf(last'.room)) =>
       LET c == last'.conn IN
       /\ Len(NewEvents(c)) = 1
       /\ NewEvents(c)[1].type = "error"
       /\ \A d \in Conns \ {c} : outbox'[d] = outbox[d]
       /\ rooms' = rooms
       /\ msgSeq' = msgSeq]_vars

\* a non-member was refused while another open connection of the same
\* identity is a member of the room
C5_Witness ==
  /\ last.op = "send_message"
  /\ ~last.ok
  /\ last.room \in DOMAIN rooms
  /\ last.conn \notin MembersOf(last.room)
  /\ \E d \in MembersOf(last.room) :
        /\ connected[d] = "open"
        /\ TokenUser[d] = TokenUser[last.conn]
  /\ LET ob == outbox[last.conn] IN
       /\ ob[Len(ob)].type = "error"
       /\ ob[Len(ob)].text = "You are not in this room"

\* C6: posts accepted for one room are stored in acceptance order, and every
\* connection is sent the message events of a room in the order of the
\* room's history.
C6_Ordering ==
  \A r \in DOMAIN rooms :
    LET hist == rooms[r].messages IN
    /\ \A i, j \in 1..Len(hist) : i < j => hist[i].id < hist[j].id
    /\ \A d \in Conns :
         LET seen == MessagesSeen(d) IN
         \A p, q \in 1..Len(seen) :
           (p < q /\ seen[p] \in Range(hist) /\ seen[q] \in Range(hist)) =>
             IndexIn(hist, seen[p]) < IndexIn(hist, seen[q])

\* a member that wrote neither of them has been sent two posts of one room
C6_Witness ==
  \E r \in DOMAIN rooms, d \in Conns :
    LET hist == rooms[r].messages IN
    /\ Len(hist) >= 2
    /\ hist[1].user.ref # d /\ hist[2].user.ref # d
    /\ hist[1] \in Range(MessagesSeen(d))
    /\ hist[2] \in Range(MessagesSeen(d))

\* C7: of two disconnect signals for a connection that is in a room, the
\* first sends every other member exactly one user_left event about it and
\* the second changes nothing and sends nothing.
C7_IdempotentDisconnect ==
  [][last'.op = "disconnect" =>
       LET c == last'.conn IN
       IF last'.ok
       THEN \A r \in RoomsOfConn(c) :
              \A d \in MembersOf(r) \ {c} :
                connected[d] = "open" =>
                  CountLeft(outbox'[d], c) = CountLeft(outbox[d], c) + 1
       ELSE /\ outbox' = outbox
            /\ rooms' = rooms
            /\ socketRooms' = socketRooms
            /\ connected' = connected
            /\ userSockets' = userSockets
            /\ socketUsers' = socketUsers]_vars

\* C8: a join_room for the room the connection is already in leaves the
\* membership set as it was, sends the other members neither user_left nor
\* user_joined, and sends the joiner room_users and message_history.
C8_RejoinIdempotent ==
  [][(/\ last'.op = "join_room" /\ last'.ok
      /\ last'.conn \in MembersOf(last'.room)) =>
       LET c == last'.conn
           r == last'.room
       IN /\ Range(rooms'[r].users) = Range(rooms[r].users)
          /\ \A d \in Conns \ {c} :
               \A i \in 1..Len(NewEvents(d)) :
                 NewEvents(d)[i].type \notin {"user_left", "user_joined"}
          /\ Len(NewEvents(c)) = 2
          /\ NewEvents(c)[1].type = "room_users"
          /\ NewEvents(c)[2].type = "message_history"]_vars

\* the join step of C9: the joiner, and nobody else, is sent room_users and
\* then message_history carrying the room's history as it is at the join
C9_JoinStep ==
  (last'.op = "join_room" /\ last'.ok) =>
    LET c == last'.conn
        r == last'.room
        evs == NewEvents(c)
    IN /\ Len(evs) = 2
       /\ evs[1].type = "room_users" /\ evs[1].roomId = r
       /\ evs[2].type = "message_history" /\ evs[2].roomId = r
       /\ evs[2].messages = rooms[r].messages
       /\ \A d \in Conns \ {c} :
            \A i \in 1..Len(NewEvents(d)) :
              NewEvents(d)[i].type \notin {"room_users", "message_history"}

\* the stream order of C9: around a message_history of room R, the message
\* events of R before it are posts the replay holds and those after it are
\* posts the replay does not hold, with room_users right in front of it
C9_StreamOrder ==
  \A d \in Conns :
    \A k \in 1..Len(outbox[d]) :
      outbox[d][k].type = "message_history" =>
        LET replay == outbox[d][k].messages
            hist == rooms[outbox[d][k].roomId].messages
        IN /\ k > 1
           /\ outbox[d][k - 1].type = "room_users"
           /\ outbox[d][k - 1].roomId = outbox[d][k].roomId
           /\ \A j \in 1..Len(outbox[d]) :
                (outbox[d][j].type = "message"
                 /\ outbox[d][j].msg \in Range(hist)) =>
                  (j < k <=> outbox[d][j].msg \in Range(replay))

\* C9: a successful join sends the joining connection alone the member
\* snapshot and then the history replay, equal to the room's history at the
\* join, both ahead of every message event posted to the room after the join.
C9_JoinResponseOrdering == [][C9_JoinStep]_vars /\ []C9_StreamOrder

\* a connection was replayed a non-empty history and then sent a later post
C9_Witness ==
  \E d \in Conns :
    \E k \in 1..Len(outbox[d]) :
      /\ outbox[d][k].type = "message_history"
      /\ outbox[d][k].messages # <<>>
      /\ \E j \in (k + 1)..Len(outbox[d]) : outbox[d][j].type = "message"

\* C10 as stated: the snapshot sent to a joiner names the other connections
\* in the room, in join order, and not the joiner itself.
C10_SnapshotListsOthers ==
  (last.op = "join_room" /\ last.ok) =>
    LET c == last.conn
        ob == outbox[c]
        ev == ob[Len(ob) - 1]
    IN /\ ev.type = "room_users"
       /\ Ids(ev.users) = Ids(SetDelete(rooms[last.room].users, SocketUser(c)))

\* C10 amended: the snapshot is the room's whole membership set after the
\* join: the entries present before, other than the joiner, in their order,
\* followed by the joiner.
C10_SnapshotListsAll ==
  [][(last'.op = "join_room" /\ last'.ok) =>
       LET c == last'.conn
           r == last'.room
           ev == NewEvents(c)[1]
       IN /\ ev.type = "room_users"
          /\ ev.users = rooms'[r].users
          /\ ev.users = Append(SetDelete(rooms[r].users, SocketUser(c)),
                               SocketUser(c))]_vars

\* a second joiner was sent the snapshot of the first member and itself
C10_Witness ==
  /\ last.op = "join_room" /\ last.ok
  /\ LET c == last.conn
         ob == outbox[c]
         ev == ob[Len(ob) - 1]
     IN /\ ev.type = "room_users"
        /\ Len(ev.users) = 2
        /\ ev.users[1].ref # c
        /\ ev.users[2] = SocketUser(c)

\* C11: a leave_room from a connection that is in room R removes it from R's
\* membership, sends each remaining member one user_left event about it and
\* leaves it in no room; from a connection in no room it changes nothing.
C11_ExplicitLeave ==
  [][last'.op = "leave_room" =>
       LET c == last'.conn IN
       IF RoomsOfConn(c) # {}
       THEN /\ \A r \in DOMAIN rooms : ~SetHas(rooms'[r].users, SocketUser(c))
            /\ Range(socketRooms'[c]) \subseteq {c}
            /\ \A r \in RoomsOfConn(c) :
                 \A d \in MembersOf(r) \ {c} :
                   connected[d] = "open" =>
                     /\ Len(NewEvents(d)) = 1
                     /\ CountLeft(NewEvents(d), c) = 1
       ELSE /\ rooms' = rooms
            /\ socketRooms' = socketRooms
            /\ outbox' = outbox]_vars

\* the string s consists of whitespace only (or is empty)
AllWhitespace(s) == \A i \in 1..Len(s) : s[i] \in Whitespace

\* C12: a send_message from a member of the room whose body is empty after
\* trimming sends one error event to the sender, stores nothing and
\* broadcasts nothing.
C12_EmptyBodyRejected ==
  [][\A c \in Conns, data \in SendData :
       (/\ OnSendMessage(c, data)
        /\ data.roomId \in DOMAIN rooms
        /\ c \in MembersOf(data.roomId)
        /\ AllWhitespace(data.message)) =>
         /\ Len(NewEvents(c)) = 1
         /\ NewEvents(c)[1].type = "error"
         /\ \A d \in Conns \ {c} : outbox'[d] = outbox[d]
         /\ rooms' = rooms]_vars

\* C13: a room creation with a valid name adds exactly one room, with empty
\* membership and history, under an id no existing room has, and leaves every
\* existing room's name, membership and history as they were.
C13_CreateAddsFreshRoom ==
  [][(last'.op = "create_room" /\ last'.ok) =>
       LET id == last'.room IN
       /\ id \notin DOMAIN rooms
       /\ DOMAIN rooms' = DOMAIN rooms \cup {id}
       /\ rooms'[id].users = <<>>
       /\ rooms'[id].messages = <<>>
       /\ \A r \in DOMAIN rooms : rooms'[r] = rooms[r]]_vars

\* C14: a room creation is refused, with the set of rooms unchanged, exactly
\* when the name is missing, empty or made of whitespace only; with any other
\* name it succeeds and the room exists afterwards.
C14_CreateFailsOnlyOnBlankName ==
  [][last'.op = "create_room" =>
       \A name \in RoomNames, roomId \in RoomIds :
         CreateRoom(name, roomId) =>
           IF name = Undefined \/ AllWhitespace(name)
           THEN ~last'.ok /\ rooms' = rooms
           ELSE /\ last'.ok
                /\ DOMAIN rooms' = DOMAIN rooms \cup {roomId}
                /\ rooms'[roomId].name # <<>>]_vars

\* a creation was refused while a room created before it is still there
C14_Witness ==
  /\ last.op = "create_room"
  /\ ~last.ok
  /\ rooms # EmptyMap

\* C15: a join_room or send_message naming a room id that does not exist
\* sends one error event to the originating connection and changes nothing
\* else: memberships, histories, the connection's own room and every other
\* connection's stream stay as they were.
C15_UnknownRoomOnlyErrors ==
  [][(/\ last'.op \in {"join_room", "send_message"}
      /\ last'.room \notin DOMAIN rooms) =>
       LET c == last'.conn IN
       /\ Len(NewEvents(c)) = 1
       /\ NewEvents(c)[1].type = "error"
       /\ NewEvents(c)[1].text = "Room not found"
       /\ \A d \in Conns \ {c} : outbox'[d] = outbox[d]
       /\ rooms' = rooms
       /\ socketRooms' = socketRooms
       /\ connected' = connected
       /\ userSockets' = userSockets
       /\ socketUsers' = socketUsers
       /\ msgSeq' = msgSeq]_vars

\* a member of a room shared with another open connection asked to join a
\* room that does not exist and is still in its room
C15_Witness ==
  /\ last.op = "join_room"
  /\ last.room \notin DOMAIN rooms
  /\ \E r \in RoomsOfConn(last.conn) :
        /\ SetHas(socketRooms[last.conn], r)
        /\ \E d \in MembersOf(r) \ {last.conn} : connected[d] = "open"

\* C16: when a connection in room R1 joins an existing room R2 other than R1,
\* one step removes it from R1, sends R1's remaining connected members one
\* user_left event (built after the removal), adds it to R2 and sends R2's
\* other connected members one user_joined event (built after the addition);
\* no other handler runs in between, so no state has it in both or neither.
C16_SwitchIsAtomic ==
  [][(/\ last'.op = "join_room" /\ last'.ok
      /\ RoomsOfConn(last'.conn) # {}
      /\ last'.room \notin RoomsOfConn(last'.conn)) =>
       LET c == last'.conn
           r2 == last'.room
           me == SocketUser(c)
       IN /\ \A r1 \in RoomsOfConn(c) :
               /\ rooms'[r1].users = SetDelete(rooms[r1].users, me)
               /\ ~SetHas(socketRooms'[c], r1)
               /\ \A d \in MembersOf(r1) \ {c} :
                     connected[d] = "open" =>
                       /\ Len(NewEvents(d)) = 1
                       /\ NewEvents(d)[1] = UserLeftEv(me, rooms'[r1].users)
          /\ rooms'[r2].users = Append(rooms[r2].users, me)
          /\ SetHas(socketRooms'[c], r2)
          /\ \A d \in MembersOf(r2) \ {c} :
                connected[d] = "open" =>
                  /\ Len(NewEvents(d)) = 1
                  /\ NewEvents(d)[1] = UserJoinedEv(me, rooms'[r2].users)
          /\ \A r \in DOMAIN rooms' :
                SetHas(rooms'[r].users, me) <=> r = r2]_vars

\* a connection has just moved to another room and a connected member of the
\* room it left was sent the user_left event about it
C16_Witness ==
  /\ last.op = "join_room" /\ last.ok
  /\ RoomsOfConn(last.conn) = {last.room}
  /\ \E r1 \in DOMAIN rooms \ {last.room} :
        \E d \in MembersOf(r1) \ {last.conn} :
          /\ connected[d] = "open"
          /\ outbox[d] # <<>>
          /\ outbox[d][Len(outbox[d])].type = "user_left"
          /\ outbox[d][Len(outbox[d])].user = SocketUser(last.conn)

\* an event of type user_joined or user_left about socket c
IsPresenceAbout(e, c) ==
  e.type \in {"user_joined", "user_left"} /\ e.user = SocketUser(c)

\* C17: whenever a connection is added to or removed from a room (its
\* membership set or its Socket.IO room), every other connection that is in
\* the room is sent exactly one user_joined or user_left event about it, and
\* no connection is ever sent such an event about itself.
C17_OneEventPerChange ==
  /\ [][\A r \in DOMAIN rooms, c \in Conns :
          (\/ SetHas(rooms[r].users, SocketUser(c))
                # SetHas(rooms'[r].users, SocketUser(c))
           \/ SetHas(socketRooms[c], r) # SetHas(socketRooms'[c], r)) =>
            \A d \in (InRoom(socketRooms, r) \cap InRoom(socketRooms', r)) \ {c} :
              /\ Len(NewEvents(d)) = 1
              /\ IsPresenceAbout(NewEvents(d)[1], c)]_vars
  /\ [](\A c \in Conns :
          \A i \in 1..Len(outbox[c]) : ~IsPresenceAbout(outbox[c][i], c))

\* s without its leading and trailing whitespace, found by position
Stripped(s) ==
  LET idx == {i \in 1..Len(s) : s[i] \notin Whitespace} IN
  IF idx = {} THEN <<>>
  ELSE SubSeq(s, CHOOSE i \in idx : \A j \in idx : i <= j,
                 CHOOSE i \in idx : \A j \in idx : i >= j)

\* C18: the message an accepted send_message stores and broadcasts has the
\* sending socket's own user as author, the trimmed payload text as body, an
\* id and a timestamp from the server, and no other field; the id and the
\* author the client put in the payload do not reach it.
C18_MessageFieldsFromServer ==
  [][(last'.op = "send_message" /\ last'.ok) =>
       \A c \in Conns, data \in SendData :
         OnSendMessage(c, data) =>
           LET hist == rooms'[data.roomId].messages
               m == hist[Len(hist)]
           IN /\ Len(hist) = Len(rooms[data.roomId].messages) + 1
              /\ DOMAIN m = {"id", "user", "message", "timestamp"}
              /\ m.user = SocketUser(c)
              /\ m.message = Stripped(data.message)
              /\ m.id = msgSeq' /\ m.id # data.id
              /\ m.timestamp = msgSeq'
              /\ \A d \in Conns :
                    \/ NewEvents(d) = <<>>
                    \/ /\ Len(NewEvents(d)) = 1
                       /\ NewEvents(d)[1].type = "message"
                       /\ NewEvents(d)[1].msg = m]_vars

\* a socket other than the one the payload names as author posted a body
\* with leading whitespace; the stored message has the socket's user and the
\* trimmed body
C18_Witness ==
  /\ last.op = "send_message" /\ last.ok
  /\ last.conn # "s2"
  /\ LET hist == rooms[last.room].messages
         m == hist[Len(hist)]
         ob == outbox[last.conn]
     IN /\ m.user = SocketUser(last.conn)
        /\ m.message = <<"y">>
        /\ ob[Len(ob)].type = "message"
        /\ ob[Len(ob)].msg = m

\* C19: in every reachable state the membership set of each room holds
\* exactly the user objects of the live connections joined to that room's
\* transport-level room; nothing is left behind for a connection that has
\* disconnected or moved to another room.
C19_NoStaleMembership ==
  \A r \in DOMAIN rooms :
    Range(rooms[r].users) = {SocketUser(d) : d \in InRoom(socketRooms, r)}

\* C20: in every reachable state socketUsers has an entry for exactly the
\* live connections, and for every live connection userSockets maps its
\* identity to a live connection of that identity.
C20_RegistryInvariant ==
  /\ DOMAIN socketUsers = {c \in Conns : connected[c] = "open"}
  /\ \A c \in Conns :
       connected[c] = "open" =>
         /\ TokenUser[c] \in DOMAIN userSockets
         /\ connected[userSockets[TokenUser[c]]] = "open"
         /\ TokenUser[userSockets[TokenUser[c]]] = TokenUser[c]

\* C21: a typing or send_message event naming room r from a connection that
\* is not a member of r delivers no event to any other connection, and a
\* typing event never changes any room's membership or history.
C21_RoomIsolation ==
  [][/\ \A r \in DOMAIN rooms :
          (/\ last'.op \in {"typing", "send_message"}
           /\ last'.room = r
           /\ last'.conn \notin MembersOf(r)) =>
             \A d \in Conns \ {last'.conn} : NewEvents(d) = <<>>
     /\ (last'.op = "typing" => rooms' = rooms)]_vars

\* socket d is live and joined to room r, as a member and at transport level
LiveIn(d, r) ==
  /\ connected[d] = "open"
  /\ SetHas(rooms[r].users, SocketUser(d))
  /\ SetHas(socketRooms[d], r)

\* C22: two live connections of one identity are independent members.  When
\* both are in room r and one leaves r, by joining another room or by
\* disconnecting, the other is still a member of r and joined to it; and a
\* live member of r whose same-identity sibling is not in r has its
\* send_message to r accepted and is sent every message posted in r.
C22_TwinsIndependent ==
  [][\A r \in DOMAIN rooms, c \in Conns, d \in Conns :
       (c # d /\ TokenUser[c] = TokenUser[d] /\ LiveIn(d, r)) =>
         /\ (/\ LiveIn(c, r)
             /\ last'.conn = c /\ last'.ok
             /\ \/ last'.op = "disconnect"
                \/ last'.op = "join_room" /\ last'.room # r) =>
               /\ ~SetHas(socketRooms'[c], r)
               /\ SetHas(rooms'[r].users, SocketUser(d))
               /\ SetHas(socketRooms'[d], r)
         /\ (/\ connected[c] # "idle" /\ ~SetHas(socketRooms[c], r)
             /\ last'.op = "send_message" /\ last'.room = r) =>
               /\ last'.conn = d => last'.ok
               /\ last'.ok =>
                    /\ Len(NewEvents(d)) = 1
                    /\ NewEvents(d)[1].type = "message"
                    /\ NewEvents(d)[1].msg =
                         rooms'[r].messages[Len(rooms'[r].messages)]]_vars

\* s1 and s3 were both in a room; s1 switched to the other room, s3 was told
\* so, and the next thing s3 is sent is its own accepted post in the room
C22_Witness ==
  /\ last.op = "send_message" /\ last.ok /\ last.conn = "s3"
  /\ LiveIn("s3", last.room)
  /\ connected["s1"] = "open"
  /\ \E r \in DOMAIN rooms : r # last.room /\ LiveIn("s1", r)
  /\ LET ob == outbox["s3"] IN
     /\ Len(ob) >= 2
     /\ ob[Len(ob) - 1].type = "user_left"
     /\ ob[Len(ob) - 1].user = SocketUser("s1")
     /\ ob[Len(ob)].type = "message"
     /\ ob[Len(ob)].msg.user = SocketUser("s3")

\* C23: the users list of every user_joined and user_left event is the
\* room's membership set right after the change that triggered the event:
\* a user_joined list is the joined room's set after the step and names the
\* joiner; a user_left list is the left room's set without the leaver, which
\* is the set after the step, or that set before the leaver is added back
\* when the room left is the room joined.
C23_UsersListAfterChange ==
  [][\A d \in Conns : \A i \in 1..Len(NewEvents(d)) :
       LET e == NewEvents(d)[i]
           c == last'.conn
       IN /\ e.type = "user_joined" =>
               /\ last'.op = "join_room" /\ last'.ok
               /\ e.user = SocketUser(c)
               /\ SetHas(socketRooms'[d], last'.room)
               /\ e.users = rooms'[last'.room].users
               /\ SetHas(e.users, SocketUser(c))
          /\ e.type = "user_left" =>
               /\ e.user = SocketUser(c)
               /\ ~SetHas(e.users, SocketUser(c))
               /\ \E rm \in DOMAIN rooms :
                    /\ SetHas(socketRooms[c], rm)
                    /\ SetHas(socketRooms[d], rm)
                    /\ Range(e.users) = Range(rooms[rm].users) \ {SocketUser(c)}
                    /\ IF rm = last'.room
                       THEN Append(e.users, SocketUser(c)) = rooms'[rm].users
                       ELSE e.users = rooms'[rm].users]_vars

\* s1 joined again the room it shares with s2: s2 was sent user_left with a
\* list without s1, then user_joined with the room's present list, s1 in it
C23_Witness ==
  /\ last.op = "join_room" /\ last.ok /\ last.conn = "s1"
  /\ LET ob == outbox["s2"] IN
     /\ Len(ob) >= 2
     /\ ob[Len(ob) - 1].type = "user_left"
     /\ ob[Len(ob) - 1].user = SocketUser("s1")
     /\ ~SetHas(ob[Len(ob) - 1].users, SocketUser("s1"))
     /\ SetHas(ob[Len(ob) - 1].users, SocketUser("s2"))
     /\ ob[Len(ob)].type = "user_joined"
     /\ ob[Len(ob)].user = SocketUser("s1")
     /\ ob[Len(ob)].users = rooms[last.room].users
     /\ SetHas(ob[Len(ob)].users, SocketUser("s1"))

\* C24: in every reachable state of a client every message in its displayed
\* list was posted in the room it shows as selected; events of the room shown
\* before that are still in flight when the user selects another room never
\* end up displayed under the new room.
C24_ClientViewConsistency ==
  \A c \in Conns :
    \A i \in 1..Len(clientMessages[c]) :
      /\ currentRoom[c] \in DOMAIN rooms
      /\ \E j \in 1..Len(rooms[currentRoom[c]].messages) :
            rooms[currentRoom[c]].messages[j] = clientMessages[c][i]

====
